---- MODULE Spec2Model ----
(***************************************************************************)
(* State-machine model of the conversation/message backend (src/main.py).  *)
(*                                                                         *)
(* A text is a sequence of one-character strings, so that trimming,        *)
(* slicing and concatenation are computed as the code computes them.       *)
(* The document store (module `database`) is modelled from its contract:   *)
(* two append-only collections and an optional connection handle `db`.     *)
(***************************************************************************)
EXTENDS Naturals, Sequences, FiniteSets, TLC

VARIABLES
    db,            \* the store handle imported from `database`: TRUE iff not None
    conversation,  \* collection "conversation", in store-native order
    message,       \* collection "message", in store-native order
    now,           \* the second the next identifier will carry
    inflight,      \* the send_message calls between their two inserts
    resp,          \* the last completed HTTP exchange (request, status, body)
    created,       \* history: {id, payload} of every successful create_conversation
    pairs,         \* history: <<user id, assistant id>> of every completed send
    orphans,       \* history: user ids whose send failed at the second insert
    user_text,     \* Response Generator harness: the argument
    reply,         \* Response Generator harness: the returned text
    gen_pc         \* Response Generator harness: "ready" or "returned"

vars == <<db, conversation, message, now, inflight, resp, created, pairs, orphans,
          user_text, reply, gen_pc>>

store_vars == <<db, conversation, message, now, inflight, resp, created, pairs, orphans>>

gen_vars == <<user_text, reply, gen_pc>>

(***************************************************************************)
(* Bounds of the model.                                                    *)
(***************************************************************************)
MaxConversations == 3

MaxMessages == 4

MaxTime == 1

MaxPad == 2

MaxOver == 2

(***************************************************************************)
(* Texts.                                                                  *)
(***************************************************************************)
Min(S) == CHOOSE x \in S : \A y \in S : x <= y

Max(S) == CHOOSE x \in S : \A y \in S : x >= y

\* The ASCII characters str.strip() removes that a TLA+ string can spell.
Whitespace == {" ", "\t", "\n", "\r", "\f"}

\* str.strip(): drop leading and trailing whitespace, keep inner whitespace.
strip(s) ==
    LET keep == {i \in 1..Len(s) : s[i] \notin Whitespace}
    IN  IF keep = {} THEN <<>> ELSE SubSeq(s, Min(keep), Max(keep))

\* s[:n]
Slice(s, n) == SubSeq(s, 1, IF Len(s) < n THEN Len(s) ELSE n)

Entendi ==
    <<"E", "n", "t", "e", "n", "d", "i", ".", " ">>

TipsIntro ==
    <<"A", "q", "u", "i", " ", "e", "s", "t", "á", " ", "u", "m", " ", "r", "a", "s", "c", "u",
    "n", "h", "o", " ", "d", "e", " ", "r", "e", "s", "p", "o", "s", "t", "a", " ", "e", " ",
    "p", "r", "ó", "x", "i", "m", "o", "s", " ", "p", "a", "s", "s", "o", "s", ":", "\n", "\n">>

TipsResumo ==
    <<"R", "e", "s", "u", "m", "o", ":", " ">>

TipsBreak ==
    <<"\n", "\n">>

TipsSugestoes ==
    <<"S", "u", "g", "e", "s", "t", "õ", "e", "s", ":", "\n">>

TipsPlano ==
    <<"-", " ", "S", "e", " ", "p", "r", "e", "c", "i", "s", "a", "r", ",", " ", "p", "o", "s",
    "s", "o", " ", "g", "e", "r", "a", "r", " ", "u", "m", " ", "p", "l", "a", "n", "o", " ",
    "p", "a", "s", "s", "o", " ", "a", " ", "p", "a", "s", "s", "o", ".", "\n">>

TipsListas ==
    <<"-", " ", "P", "o", "s", "s", "o", " ", "c", "r", "i", "a", "r", " ", "l", "i", "s", "t",
    "a", "s", ",", " ", "t", "a", "b", "e", "l", "a", "s", " ", "e", "m", " ", "M", "a", "r",
    "k", "d", "o", "w", "n", " ", "e", " ", "e", "x", "e", "m", "p", "l", "o", "s", " ", "d",
    "e", " ", "c", "ó", "d", "i", "g", "o", ".", "\n">>

TipsRefinar ==
    <<"-", " ", "D", "i", "g", "a", " ", "'", "r", "e", "f", "i", "n", "a", "r", "'", " ", "p",
    "a", "r", "a", " ", "m", "e", "l", "h", "o", "r", "a", "r", " ", "a", "l", "g", "u", "m",
    "a", " ", "p", "a", "r", "t", "e", " ", "e", "s", "p", "e", "c", "í", "f", "i", "c", "a",
    ".", "\n", "\n">>

TipsFerramentas ==
    <<"F", "e", "r", "r", "a", "m", "e", "n", "t", "a", "s", " ", "m", "e", "n", "t", "a", "i",
    "s", " ", "u", "s", "a", "d", "a", "s", ":", " ", "d", "e", "c", "o", "m", "p", "o", "s",
    "i", "ç", "ã", "o", ",", " ", "e", "x", "e", "m", "p", "l", "o", "s", ",", " ", "c", "h",
    "e", "c", "k", "l", "i", "s", "t", ".">>

Ellipsis ==
    <<".", ".", ".">>

\* The echo is cut at this many characters.
EchoLimit == 180

(***************************************************************************)
(* Response Generator.                                                     *)
(***************************************************************************)
\* A plausible slip: the ellipsis test written >= instead of >.
simple_ai_response_ge(text) ==
    LET t == strip(text)
    IN  Entendi \o TipsIntro \o TipsResumo
          \o Slice(t, EchoLimit) \o (IF Len(t) >= EchoLimit THEN Ellipsis ELSE <<>>)
          \o TipsBreak \o TipsSugestoes \o TipsPlano \o TipsListas \o TipsRefinar
          \o TipsFerramentas

simple_ai_response(text) ==
    LET t == strip(text)
    IN  Entendi \o TipsIntro \o TipsResumo
          \o Slice(t, EchoLimit) \o (IF Len(t) > EchoLimit THEN Ellipsis ELSE <<>>)
          \o TipsBreak \o TipsSugestoes \o TipsPlano \o TipsListas \o TipsRefinar
          \o TipsFerramentas

(***************************************************************************)
(* bson.ObjectId, as main.py uses it: 12 bytes printed as 24 hex digits,   *)
(* the first 4 bytes being the creation second (generation_time).          *)
(***************************************************************************)
HexDigits ==
    <<"0", "1", "2", "3", "4", "5", "6", "7", "8", "9", "a", "b", "c", "d", "e", "f">>

HexUpper ==
    <<"0", "1", "2", "3", "4", "5", "6", "7", "8", "9", "A", "B", "C", "D", "E", "F">>

HexChars == {HexDigits[i] : i \in 1..16} \cup {HexUpper[i] : i \in 1..16}

HexValue(c) == (CHOOSE i \in 1..16 : HexDigits[i] = c \/ HexUpper[i] = c) - 1

RECURSIVE ToHex(_, _)
\* n printed as `width` lowercase hex digits
ToHex(n, width) ==
    IF width = 0 THEN <<>>
    ELSE Append(ToHex(n \div 16, width - 1), HexDigits[(n % 16) + 1])

RECURSIVE FromHex(_)
FromHex(s) ==
    IF s = <<>> THEN 0
    ELSE 16 * FromHex(SubSeq(s, 1, Len(s) - 1)) + HexValue(s[Len(s)])

\* str(oid)
str_id(oid) == ToHex(oid.time, 8) \o ToHex(oid.rand, 10) \o ToHex(oid.inc, 6)

\* ObjectId(s) raises InvalidId unless s is 24 hex digits
is_object_id(s) == Len(s) = 24 /\ \A i \in 1..Len(s) : s[i] \in HexChars

\* ObjectId(s), for a string that parses
ObjectId(s) ==
    [time |-> FromHex(SubSeq(s, 1, 8)),
     rand |-> FromHex(SubSeq(s, 9, 18)),
     inc  |-> FromHex(SubSeq(s, 19, 24))]

generation_time(oid) == oid.time

(***************************************************************************)
(* Request models.  A JSON body is a record; an omitted field is absent    *)
(* from its domain.                                                        *)
(***************************************************************************)
DefaultModel ==
    <<"g", "p", "t", "-", "4", "o", "-", "m", "i", "n", "i">>

\* An empty title passes: min_length forgotten.
ConversationCreateValid_nomin(p) == "title" \in DOMAIN p

\* title: str = Field(..., min_length=1); a body that fails is answered 422
ConversationCreateValid(p) == "title" \in DOMAIN p /\ Len(p.title) >= 1

\* payload.model_dump(): the default fills an omitted model
model_dump(p) ==
    [title |-> p.title,
     model |-> IF "model" \in DOMAIN p THEN p.model ELSE DefaultModel]

\* The role literal widened to the output model's three roles.
MessageCreateValid_anyrole(p) ==
    /\ "content" \in DOMAIN p
    /\ Len(p.content) >= 1
    /\ "role" \in DOMAIN p => p.role \in {"user", "system", "assistant"}

\* role: Literal["user", "system"]; content: str = Field(..., min_length=1)
MessageCreateValid(p) ==
    /\ "content" \in DOMAIN p
    /\ Len(p.content) >= 1
    /\ "role" \in DOMAIN p => p.role \in {"user", "system"}

\* the validated MessageCreate: role defaults to "user"
MessageCreate(p) ==
    [role    |-> IF "role" \in DOMAIN p THEN p.role ELSE "user",
     content |-> p.content]

(***************************************************************************)
(* Document Store Adapter (module `database`), from its contract:          *)
(* create_document inserts a document under a fresh identifier and returns *)
(* the identifier as a string; get_documents returns the documents that    *)
(* match an exact-match filter, in store-native (insertion) order; both    *)
(* raise when the store is unavailable.                                    *)
(***************************************************************************)
\* The seconds an identifier may carry.
Times == 0..MaxTime

\* A fresh identifier of a collection: it carries the current second, and its
\* counter field is unique in the collection.
NewObjectId(collection) == [time |-> now, rand |-> 171, inc |-> Len(collection) + 1]

\* The collection after create_document(name, data)
create_document(collection, data) ==
    Append(collection, [_id |-> NewObjectId(collection)] @@ data)

\* The identifier create_document returned, given the collection it left
inserted_id(collection) == str_id(collection[Len(collection)]._id)

\* get_documents("conversation", {})
get_conversations == conversation

\* get_documents("message", {"conversation_id": cid})
get_messages(cid) == SelectSeq(message, LAMBDA d : d.conversation_id = cid)

(***************************************************************************)
(* Response models and the HTTP exchange a request ends in.                *)
(***************************************************************************)
\* The stored model never read: every conversation listed with the default.
ConversationOut_default(d) ==
    [id |-> str_id(d._id), title |-> d.title, model |-> DefaultModel]

\* ConversationOut(id=str(d.get("_id")), title=..., model=d.get("model", default))
ConversationOut(d) ==
    [id    |-> str_id(d._id),
     title |-> d.title,
     model |-> IF "model" \in DOMAIN d THEN d.model ELSE DefaultModel]

\* MessageOut(id=str(d.get("_id")), role=d.get("role"), content=d.get("content"))
MessageOut(d) == [id |-> str_id(d._id), role |-> d.role, content |-> d.content]

\* 422: the framework rejects the body before the handler runs
ValidationError == [detail |-> "validation error"]

\* 400: raise HTTPException(status_code=400, detail="Invalid conversation id")
InvalidConversationId == [detail |-> "Invalid conversation id"]

\* 500: raise HTTPException(status_code=500, detail="Database not configured")
DatabaseNotConfigured == [detail |-> "Database not configured"]

\* 500: an exception of a store call leaves the handler
InternalServerError == [detail |-> "Internal Server Error"]

\* The exchange a request ends in: what was asked, what was answered, the store
\* calls the handler made, whether the step that answered changed a collection,
\* and how many documents each collection held when it answered.
Exchange(op, cid, payload, status, body, calls) ==
    [op |-> op, conversation_id |-> cid, payload |-> payload,
     status |-> status, body |-> body, calls |-> calls,
     changed |-> (conversation' # conversation \/ message' # message),
     at |-> [conversation |-> Len(conversation'), message |-> Len(message')]]

NoExchange ==
    [op |-> "none", conversation_id |-> <<>>, payload |-> <<>>,
     status |-> 0, body |-> <<>>, calls |-> <<>>, changed |-> FALSE,
     at |-> [conversation |-> 0, message |-> 0]]

(***************************************************************************)
(* Requests the environment sends.                                         *)
(***************************************************************************)
TitleHi == <<"H", "i">>

ModelX == <<"x", "1">>

ValidConversationBodies ==
    {[title |-> TitleHi],
     [title |-> TitleHi, model |-> ModelX]}

InvalidConversationBodies ==
    {[title |-> <<>>],
     [title |-> <<>>, model |-> ModelX]}

ConversationBodies == ValidConversationBodies \cup InvalidConversationBodies

\* str() of the first conversation identifier made at second 0
OidA == ToHex(0, 8) \o ToHex(171, 10) \o ToHex(1, 6)

\* 24 upper-case hex digits
OidB == [i \in 1..24 |-> "F"]

NotAnId ==
    <<"n", "o", "t", "-", "a", "n", "-", "i", "d">>

\* 23 hex digits
TooShort == Tail(OidA)

\* 24 characters, the last one no hex digit
NonHex == [OidA EXCEPT ![24] = "g"]

WellFormedIds == {OidA, OidB}

MalformedIds == {NotAnId, TooShort, NonHex}

ConversationIds == WellFormedIds \cup MalformedIds

\* surrounding whitespace, which the store keeps and the reply trims
ContentHello == <<" ", "H", "e", "l", "l", "o", "\n">>

ValidMessageBodies ==
    {[content |-> ContentHello],
     [role |-> "system", content |-> ContentHello]}

InvalidMessageBodies ==
    {[content |-> <<>>],
     [role |-> "assistant", content |-> ContentHello]}

MessageBodies == ValidMessageBodies \cup InvalidMessageBodies

(***************************************************************************)
(* Initial state: service started, both collections empty.  The handle db  *)
(* is bound once, at import, and is None when the store is not configured. *)
(***************************************************************************)
InitStore ==
    /\ conversation = <<>>
    /\ message = <<>>
    /\ now = 0
    /\ inflight = {}
    /\ resp = NoExchange
    /\ created = {}
    /\ pairs = {}
    /\ orphans = {}

Init ==
    /\ db \in BOOLEAN
    /\ InitStore
    /\ user_text = <<>>
    /\ reply = <<>>
    /\ gen_pc = "idle"

(***************************************************************************)
(* Conversation handlers.                                                  *)
(***************************************************************************)
\* POST /api/conversations
create_conversation(p) ==
    /\ UNCHANGED <<db, message, now, inflight, pairs, orphans, gen_vars>>
    /\ IF ~ConversationCreateValid(p)
       THEN /\ UNCHANGED <<conversation, created>>
            /\ resp' = Exchange("create_conversation", <<>>, p, 422, ValidationError, <<>>)
       ELSE LET data == model_dump(p) IN
            \/ /\ db
               /\ Len(conversation) < MaxConversations
               /\ conversation' = create_document(conversation, data)
               /\ LET conv_id == inserted_id(conversation') IN
                      /\ resp' = Exchange("create_conversation", <<>>, p, 200,
                                          [id |-> conv_id] @@ data, <<"create_document">>)
                      /\ created' = created \cup {[id |-> conv_id, payload |-> p]}
            \/ /\ UNCHANGED <<conversation, created>>
               /\ resp' = Exchange("create_conversation", <<>>, p, 500,
                                   InternalServerError, <<"create_document">>)

KeyOf(x) == generation_time(ObjectId(x.id))

\* reverse=True left out: x goes after every element whose key is less or equal.
InsertAscending(out, x) ==
    LET n == Cardinality({i \in 1..Len(out) : KeyOf(out[i]) <= KeyOf(x)})
    IN  SubSeq(out, 1, n) \o <<x>> \o SubSeq(out, n + 1, Len(out))

\* x placed into the list `out`, sorted by descending key, after every element
\* whose key is greater or equal: equal keys keep their original order.
InsertDescending(out, x) ==
    LET n == Cardinality({i \in 1..Len(out) : KeyOf(out[i]) >= KeyOf(x)})
    IN  SubSeq(out, 1, n) \o <<x>> \o SubSeq(out, n + 1, Len(out))

RECURSIVE sort_by_generation_time(_)
\* out.sort(key=lambda x: ObjectId(x.id).generation_time, reverse=True): stable
sort_by_generation_time(out) ==
    IF out = <<>> THEN <<>>
    ELSE InsertDescending(sort_by_generation_time(SubSeq(out, 1, Len(out) - 1)),
                          out[Len(out)])

\* GET /api/conversations
list_conversations ==
    /\ UNCHANGED <<db, conversation, message, now, inflight, created, pairs, orphans, gen_vars>>
    /\ \/ /\ db
          /\ LET docs == get_conversations
                 out  == [i \in 1..Len(docs) |-> ConversationOut(docs[i])]
             IN  resp' = Exchange("list_conversations", <<>>, <<>>, 200,
                                  sort_by_generation_time(out), <<"get_documents">>)
       \/ resp' = Exchange("list_conversations", <<>>, <<>>, 500,
                           InternalServerError, <<"get_documents">>)

(***************************************************************************)
(* Message handlers.                                                       *)
(***************************************************************************)
\* The identifier check left out.
list_messages_guard_none(cid) == TRUE

\* try: ObjectId(conversation_id) / except: raise 400
list_messages_guard(cid) == is_object_id(cid)

\* The filter key misspelt: the store matches every message.
list_messages_docs_unfiltered(cid) == message

\* docs = get_documents("message", {"conversation_id": conversation_id})
list_messages_docs(cid) == get_messages(cid)

\* GET /api/conversations/{conversation_id}/messages
list_messages(cid) ==
    /\ UNCHANGED <<db, conversation, message, now, inflight, created, pairs, orphans, gen_vars>>
    /\ IF ~list_messages_guard(cid)
       THEN resp' = Exchange("list_messages", cid, <<>>, 400, InvalidConversationId, <<>>)
       ELSE \/ /\ db
               /\ LET docs == list_messages_docs(cid)
                      msgs == [i \in 1..Len(docs) |-> MessageOut(docs[i])]
                  IN  resp' = Exchange("list_messages", cid, <<>>, 200, msgs,
                                       <<"get_documents">>)
            \/ resp' = Exchange("list_messages", cid, <<>>, 500, InternalServerError,
                                <<"get_documents">>)

Proceed == [status |-> 200, body |-> <<>>]

\* The two checks in the other order: the handle first, the identifier second.
send_message_guard_db_first(cid) ==
    IF ~db THEN [status |-> 500, body |-> DatabaseNotConfigured]
    ELSE IF ~is_object_id(cid) THEN [status |-> 400, body |-> InvalidConversationId]
    ELSE Proceed

\* The checks send_message makes before it writes: the HTTPException raised, if any
send_message_guard(cid) ==
    IF ~is_object_id(cid) THEN [status |-> 400, body |-> InvalidConversationId]
    ELSE IF ~db THEN [status |-> 500, body |-> DatabaseNotConfigured]
    ELSE Proceed

\* The given role dropped: every inbound message stored as "user".
user_message_as_user(cid, payload) ==
    [conversation_id |-> cid, role |-> "user", content |-> payload.content]

\* user_msg = {"conversation_id": ..., "role": payload.role, "content": payload.content}
user_message(cid, payload) ==
    [conversation_id |-> cid, role |-> payload.role, content |-> payload.content]

\* POST /api/conversations/{conversation_id}/messages, up to and including the
\* first insert (lines 160-174).
send_message_begin(cid, p) ==
    /\ UNCHANGED <<db, conversation, now, created, pairs, orphans, gen_vars>>
    /\ IF ~MessageCreateValid(p)
       THEN /\ UNCHANGED <<message, inflight>>
            /\ resp' = Exchange("send_message", cid, p, 422, ValidationError, <<>>)
       ELSE IF send_message_guard(cid) # Proceed
       THEN /\ UNCHANGED <<message, inflight>>
            /\ resp' = Exchange("send_message", cid, p, send_message_guard(cid).status,
                                send_message_guard(cid).body, <<>>)
       ELSE LET payload  == MessageCreate(p)
                user_msg == user_message(cid, payload)
            IN  \/ /\ Len(message) + Cardinality(inflight) + 2 <= MaxMessages
                   /\ message' = create_document(message, user_msg)
                   /\ inflight' = inflight \cup
                         {[conversation_id |-> cid, request |-> p, payload |-> payload,
                           user_msg |-> user_msg, user_id |-> inserted_id(message')]}
                   /\ UNCHANGED resp
                \/ /\ UNCHANGED <<message, inflight>>
                   /\ resp' = Exchange("send_message", cid, p, 500, InternalServerError,
                                       <<"create_document">>)

\* A compensating delete: the user message removed when the reply is not stored.
message_after_failed_reply_rollback(f) ==
    SelectSeq(message, LAMBDA d : str_id(d._id) # f.user_id)

\* The collection after the second create_document raised: the exception leaves
\* the handler, nothing is undone
message_after_failed_reply(f) == message

\* The rest of send_message (lines 176-188) for the call with frame f: the reply,
\* the second insert, the two records returned.
send_message_finish(f) ==
    /\ f \in inflight
    /\ UNCHANGED <<db, conversation, now, created, gen_vars>>
    /\ inflight' = inflight \ {f}
    /\ LET reply_text == simple_ai_response(f.payload.content)
           assistant_msg == [conversation_id |-> f.conversation_id, role |-> "assistant",
                             content |-> reply_text]
       IN  \/ /\ message' = create_document(message, assistant_msg)
              /\ LET asst_id == inserted_id(message') IN
                   /\ resp' = Exchange("send_message", f.conversation_id, f.request, 200,
                         <<[id |-> f.user_id, role |-> f.user_msg.role,
                            content |-> f.user_msg.content],
                           [id |-> asst_id, role |-> "assistant", content |-> reply_text]>>,
                         <<"create_document", "create_document">>)
                   /\ pairs' = pairs \cup {<<f.user_id, asst_id>>}
                   /\ UNCHANGED orphans
           \/ /\ message' = message_after_failed_reply(f)
              /\ UNCHANGED pairs
              /\ resp' = Exchange("send_message", f.conversation_id, f.request, 500,
                                  InternalServerError,
                                  <<"create_document", "create_document">>)
              /\ orphans' = orphans \cup {f.user_id}

(***************************************************************************)
(* Identifiers are stamped with the second of the host that makes them;    *)
(* between two inserts that second may stay, advance, or differ (another   *)
(* host, an adjusted clock).                                               *)
(***************************************************************************)
clock(t) ==
    /\ t # now
    /\ now' = t
    /\ UNCHANGED <<db, conversation, message, inflight, resp, created, pairs, orphans,
                   gen_vars>>

(***************************************************************************)
(* The service: any request at any time.                                   *)
(***************************************************************************)
NextConversations ==
    \/ \E p \in ConversationBodies : create_conversation(p)
    \/ list_conversations
    \/ \E t \in Times : clock(t)

NextMessages ==
    \/ \E cid \in ConversationIds : list_messages(cid)
    \/ \E cid \in ConversationIds, p \in MessageBodies : send_message_begin(cid, p)
    \/ \E f \in inflight : send_message_finish(f)

\* The whole service.  The two groups of endpoints write disjoint collections
\* and neither reads the other's, so each is explored on its own below.
Next == NextConversations \/ NextMessages

Spec == Init /\ [][Next]_vars

\* The conversation endpoints, which touch no message.
SpecConversations == Init /\ [][NextConversations]_vars

\* The message endpoints, which touch no conversation and whose answers do not
\* depend on the second an identifier carries.
SpecMessages == Init /\ [][NextMessages]_vars

(***************************************************************************)
(* The Response Generator on its own: one call on one argument.            *)
(***************************************************************************)
\* k characters of whitespace
Pad(k) == [i \in 1..k |-> IF i % 2 = 1 THEN " " ELSE "\n"]

\* n characters with a blank second one, none at either end
Body(n) == [i \in 1..n |-> IF i = 2 /\ n > 2 THEN " " ELSE HexDigits[(i % 16) + 1]]

BodyLengths == {0, 1, 5} \cup {n \in 1..(EchoLimit + MaxOver) : n + 2 >= EchoLimit}

GenInputs ==
    {Pad(l) \o Body(n) \o Pad(r) : l \in 0..MaxPad, r \in 0..MaxPad, n \in BodyLengths}

InitGen ==
    /\ db = TRUE
    /\ InitStore
    /\ user_text \in GenInputs
    /\ reply = <<>>
    /\ gen_pc = "ready"

call_simple_ai_response ==
    /\ gen_pc = "ready"
    /\ reply' = simple_ai_response(user_text)
    /\ gen_pc' = "returned"
    /\ UNCHANGED <<user_text, store_vars>>

NextGen == call_simple_ai_response

SpecGen == InitGen /\ [][NextGen]_vars

(***************************************************************************)
(* Properties.                                                             *)
(***************************************************************************)
\* The messages of conversation cid with (assistant) or without the role
\* "assistant", as positions in the collection.
AssistantIn(cid) ==
    {i \in 1..Len(message) :
        message[i].conversation_id = cid /\ message[i].role = "assistant"}

InboundIn(cid) ==
    {i \in 1..Len(message) :
        message[i].conversation_id = cid /\ message[i].role # "assistant"}

\* The identifiers of the stored messages, as the handlers print them.
MessageIds == [i \in 1..Len(message) |-> str_id(message[i]._id)]

\* The positions of the messages stored under identifier id, given ids = MessageIds.
At(ids, id) == {i \in 1..Len(ids) : ids[i] = id}

GivenRole(p) == IF "role" \in DOMAIN p THEN p.role ELSE "user"

TwoInserts == <<"create_document", "create_document">>

\* C1: a message endpoint whose handler is given a malformed conversation
\* identifier answers 400 "Invalid conversation id", makes no store call and
\* leaves both collections as they were.  (A send_message body the framework
\* rejects is answered 422 before the handler runs.)
C1_MalformedIdRejected ==
    (/\ resp.conversation_id \in MalformedIds
     /\ \/ resp.op = "list_messages"
        \/ resp.op = "send_message" /\ resp.payload \in ValidMessageBodies)
    => /\ resp.status = 400
       /\ resp.body = InvalidConversationId
       /\ resp.calls = <<>>
       /\ ~resp.changed

C1_Witness ==
    /\ resp.op = "send_message"
    /\ resp.conversation_id = NotAnId
    /\ resp.status = 400
    /\ db
    /\ Len(message) >= 2

\* C7: send_message with a well-formed identifier and no store handle answers
\* 500 "Database not configured" and inserts nothing; with a malformed
\* identifier and no store handle it answers 400, the identifier being checked
\* first.
C7_NoHandleIs500 ==
    (resp.op = "send_message" /\ resp.payload \in ValidMessageBodies /\ ~db)
    => /\ resp.calls = <<>>
       /\ ~resp.changed
       /\ message = <<>>
       /\ resp.conversation_id \in WellFormedIds
            => resp.status = 500 /\ resp.body = DatabaseNotConfigured
       /\ resp.conversation_id \in MalformedIds
            => resp.status = 400 /\ resp.body = InvalidConversationId

C7_Witness ==
    /\ ~db
    /\ resp.op = "send_message"
    /\ resp.conversation_id = OidB
    /\ resp.status = 500

\* C3: a send_message answered 200 returns two records, the inbound message
\* with the given role ("user" when omitted) and the content as sent, then the
\* assistant reply simple_ai_response(content); it made two inserts, and the
\* two returned identifiers name two distinct stored messages of that
\* conversation holding those roles and contents, the inbound one first.
C3_SendReturnsThePair ==
    LET ids == MessageIds IN
    (resp.op = "send_message" /\ resp.status = 200)
    => /\ Len(resp.body) = 2
       /\ resp.calls = TwoInserts
       /\ resp.body[1].role = GivenRole(resp.payload)
       /\ resp.body[1].content = resp.payload.content
       /\ resp.body[2].role = "assistant"
       /\ resp.body[2].content = simple_ai_response(resp.payload.content)
       /\ \E i, j \in 1..Len(message) :
            /\ i < j
            /\ At(ids, resp.body[1].id) = {i}
            /\ At(ids, resp.body[2].id) = {j}
            /\ MessageOut(message[i]) = resp.body[1]
            /\ MessageOut(message[j]) = resp.body[2]
            /\ message[i].conversation_id = resp.conversation_id
            /\ message[j].conversation_id = resp.conversation_id

C3_Witness ==
    LET ids == MessageIds IN
    /\ resp.op = "send_message"
    /\ resp.status = 200
    /\ resp.payload = [role |-> "system", content |-> ContentHello]
    /\ resp.body[2].content # resp.body[1].content
    /\ \E i \in At(ids, resp.body[1].id), j \in At(ids, resp.body[2].id) : j > i + 1

\* C8: a send_message whose second insert fails answers 500 and undoes
\* nothing; from then on its user message stays in the collection, exactly
\* once, and is never given a reply: no completed send pairs it, and its
\* conversation keeps at least as many surplus inbound messages as it has
\* such unpaired ones.
C8_NoRollback ==
    LET ids == MessageIds IN
    /\ (resp.op = "send_message" /\ resp.calls = TwoInserts /\ resp.status = 500)
         => ~resp.changed /\ orphans # {}
    /\ \A u \in orphans :
         /\ Cardinality(At(ids, u)) = 1
         /\ \A i \in At(ids, u) : message[i].role # "assistant"
         /\ \A pr \in pairs : pr[1] # u
    /\ \A cid \in WellFormedIds :
         Cardinality(InboundIn(cid)) >=
            Cardinality(AssistantIn(cid))
              + Cardinality({u \in orphans : \E i \in At(ids, u) : i \in InboundIn(cid)})

\* An unpaired user message, then a later send to the same conversation that
\* completed, and nothing in flight.
C8_Witness ==
    LET ids == MessageIds IN
    /\ inflight = {}
    /\ \E u \in orphans, pr \in pairs :
         \E i \in At(ids, u), j \in At(ids, pr[1]) :
            /\ i < j
            /\ message[i].conversation_id = message[j].conversation_id
    /\ resp.op = "list_messages"
    /\ resp.status = 200

\* The k-th message of conversation cid among the first n stored ones.
Matching(cid, n) == {i \in 1..n : message[i].conversation_id = cid}

\* C9: a list_messages answered 200 made one get_documents call, changed
\* nothing, and returns the messages stored under the given identifier when it
\* answered: every one of them, no other, each with its identifier, role and
\* content, in the order of the collection.
C9_ListIsTheFilteredStore ==
    (resp.op = "list_messages" /\ resp.status = 200)
    => /\ resp.conversation_id \in WellFormedIds
       /\ resp.calls = <<"get_documents">>
       /\ ~resp.changed
       /\ resp.at.message <= Len(message)
       /\ LET idx == Matching(resp.conversation_id, resp.at.message) IN
            /\ Len(resp.body) = Cardinality(idx)
            /\ \A i \in idx :
                 resp.body[Cardinality({k \in idx : k <= i})] = MessageOut(message[i])

\* Two messages of one conversation listed, with a message of the other
\* conversation stored between them.
C9_Witness ==
    /\ resp.op = "list_messages"
    /\ resp.status = 200
    /\ Len(resp.body) >= 2
    /\ resp.at.message = Len(message)
    /\ \E i, j, k \in 1..Len(message) :
         /\ i < k /\ k < j
         /\ message[i].conversation_id = resp.conversation_id
         /\ message[j].conversation_id = resp.conversation_id
         /\ message[k].conversation_id # resp.conversation_id

\* C10: whatever the interleaving of sends and whichever insert fails, every
\* assistant message is the reply of exactly one completed send, stored after
\* that send's own inbound message of the same conversation, and no inbound
\* message has two replies; so a conversation never holds more assistant than
\* inbound messages, and holds as many when no send to it is between its
\* inserts and none of its sends lost its reply.
C10_RepliesFollowTheirMessage ==
    LET ids == MessageIds IN
    /\ \A j \in 1..Len(message) :
         message[j].role = "assistant"
         => \E pr \in pairs :
              /\ At(ids, pr[2]) = {j}
              /\ \E i \in At(ids, pr[1]) :
                   /\ i < j
                   /\ message[i].role # "assistant"
                   /\ message[i].conversation_id = message[j].conversation_id
    /\ \A p1, p2 \in pairs : (p1[1] = p2[1] \/ p1[2] = p2[2]) => p1 = p2
    /\ \A cid \in WellFormedIds :
         /\ Cardinality(AssistantIn(cid)) <= Cardinality(InboundIn(cid))
         /\ (/\ \A f \in inflight : f.conversation_id # cid
             /\ \A u \in orphans : \A i \in At(ids, u) : message[i].conversation_id # cid)
            => Cardinality(AssistantIn(cid)) = Cardinality(InboundIn(cid))

\* Two sends to one conversation interleaved: both completed, and a message
\* of the other send stored between one send's message and its reply.
C10_Witness ==
    LET ids == MessageIds IN
    /\ inflight = {}
    /\ orphans = {}
    /\ Cardinality(pairs) = 2
    /\ \E pr \in pairs :
         \E i \in At(ids, pr[1]), j \in At(ids, pr[2]) :
            /\ j > i + 1
            /\ \A k \in i..j : message[k].conversation_id = message[i].conversation_id

\* The positions of the conversations stored under identifier id.
ConversationAt(id) == {i \in 1..Len(conversation) : str_id(conversation[i]._id) = id}

\* The second carried by the identifier of the stored conversation listed as x.
StoredSecond(x) == conversation[CHOOSE i \in ConversationAt(x.id) : TRUE]._id.time

\* C2: a list_conversations answered 200 returns every conversation stored
\* when it answered, each once, ordered by the creation second of its
\* identifier, newest first: no conversation is listed before one whose
\* identifier carries a later second, whatever the order of the collection and
\* whether or not seconds repeat.
C2_ListedNewestFirst ==
    (resp.op = "list_conversations" /\ resp.status = 200)
    => /\ Len(resp.body) = resp.at.conversation
       /\ \A i \in 1..resp.at.conversation :
            \E k \in 1..Len(resp.body) : ConversationAt(resp.body[k].id) = {i}
       /\ \A k, l \in 1..Len(resp.body) :
            k < l => StoredSecond(resp.body[k]) >= StoredSecond(resp.body[l])

\* Three conversations listed, two of them of the same second, stored in an
\* order that is not the listed one.
C2_Witness ==
    /\ resp.op = "list_conversations"
    /\ resp.status = 200
    /\ Len(resp.body) >= 3
    /\ \E i, j \in 1..Len(conversation) :
         i < j /\ conversation[i]._id.time < conversation[j]._id.time
    /\ \E i, j \in 1..Len(conversation) :
         i < j /\ conversation[i]._id.time = conversation[j]._id.time

ModelAsked(p) == IF "model" \in DOMAIN p THEN p.model ELSE DefaultModel

\* C4: when list_conversations answers 200, every conversation a
\* create_conversation returned so far is listed under the identifier that
\* create returned, with the title it was created with and the model it was
\* created with, "gpt-4o-mini" when the request named none.
C4_CreateThenList ==
    (/\ resp.op = "list_conversations"
     /\ resp.status = 200
     /\ resp.at.conversation = Len(conversation))
    => \A c \in created :
         \E k \in 1..Len(resp.body) :
            /\ resp.body[k].id = c.id
            /\ resp.body[k].title = c.payload.title
            /\ resp.body[k].model = ModelAsked(c.payload)
            /\ "model" \notin DOMAIN c.payload => resp.body[k].model = DefaultModel

\* Listed after three creates, one naming a model and one naming none.
C4_Witness ==
    /\ resp.op = "list_conversations"
    /\ resp.status = 200
    /\ resp.at.conversation = Len(conversation)
    /\ Cardinality(created) >= 3
    /\ \E c, e \in created : "model" \in DOMAIN c.payload /\ "model" \notin DOMAIN e.payload

\* C6: create_conversation with an empty title is answered 422, calls the
\* store not at all and leaves the conversation collection as it was.
C6_EmptyTitleRejected ==
    (resp.op = "create_conversation" /\ resp.payload.title = <<>>)
    => /\ resp.status = 422
       /\ resp.calls = <<>>
       /\ ~resp.changed
       /\ \A c \in created : c.payload.title # <<>>
       /\ \A i \in 1..Len(conversation) : conversation[i].title # <<>>

C6_Witness ==
    /\ resp.op = "create_conversation"
    /\ resp.payload.title = <<>>
    /\ resp.status = 422
    /\ db
    /\ Len(conversation) >= 1

\* The fixed text before and after the echo.
BeforeEcho == Entendi \o TipsIntro \o TipsResumo

AfterEcho ==
    TipsBreak \o TipsSugestoes \o TipsPlano \o TipsListas \o TipsRefinar \o TipsFerramentas

\* The reply r is the template around the echo e.
Embeds(r, e) == r = BeforeEcho \o e \o AfterEcho

\* The first EchoLimit characters and "..." of a text longer than EchoLimit,
\* any other text as it is.
Echo(t) == IF Len(t) > EchoLimit THEN SubSeq(t, 1, EchoLimit) \o Ellipsis ELSE t

\* C5, as claimed: the reply embeds the input itself, cut to its first 180
\* characters with "..." appended when it is longer than 180, and unmodified
\* otherwise.
C5_EchoOfTheInput ==
    gen_pc = "returned" => Embeds(reply, Echo(user_text))

\* t is s without its leading and trailing whitespace.
IsTrimmed(s, t) ==
    \E a, b \in 0..Len(s) :
       /\ a + b <= Len(s)
       /\ t = SubSeq(s, a + 1, Len(s) - b)
       /\ \A i \in 1..a : s[i] \in Whitespace
       /\ \A i \in (Len(s) - b + 1)..Len(s) : s[i] \in Whitespace
       /\ t # <<>> => t[1] \notin Whitespace /\ t[Len(t)] \notin Whitespace

\* The text from the first to the last non-whitespace character of s.
Trimmed(s) ==
    LET first == {a \in 0..Len(s) : \A i \in 1..a : s[i] \in Whitespace}
        last  == {b \in 0..Len(s) : \A i \in (Len(s) - b + 1)..Len(s) : s[i] \in Whitespace}
    IN  IF Max(first) = Len(s) THEN <<>>
        ELSE SubSeq(s, Max(first) + 1, Len(s) - Max(last))

\* C5, amended: the reply embeds the input without its surrounding whitespace,
\* cut to the first 180 characters of that trimmed text with "..." appended
\* when the trimmed text is longer than 180, and the whole trimmed text with
\* no ellipsis otherwise.
C5_EchoOfTheTrimmedInput ==
    gen_pc = "returned"
    => /\ IsTrimmed(user_text, Trimmed(user_text))
       /\ Embeds(reply, Echo(Trimmed(user_text)))

\* An input with leading whitespace whose trimmed text is longer than 180.
C5_Witness ==
    /\ gen_pc = "returned"
    /\ user_text # <<>>
    /\ user_text[1] \in Whitespace
    /\ Len(Trimmed(user_text)) > EchoLimit
    /\ Len(reply) = Len(BeforeEcho) + EchoLimit + Len(Ellipsis) + Len(AfterEcho)

====
